---- MODULE Spec2Model ----
(***************************************************************************)
(* vs-average: a VapourSynth plugin that combines N aligned clips into one *)
(* by a per-sample aggregate (Mean: plain / weighted / trimmed, Median).   *)
(* Model of src/src/lib.rs, src/src/mean.rs, src/src/median.rs and         *)
(* src/src/common.rs.                                                      *)
(***************************************************************************)
EXTENDS Integers, Sequences, FiniteSets, TLC

(***************************************************************************)
(* Natural numbers of arbitrary size, as little-endian sequences of limbs. *)
(* They carry the 53-bit significands of the f64 arithmetic the filters do *)
(* (`p * w`, `.sum::<f64>()`, `1.0 / x`), which do not fit a machine       *)
(* integer of the model checker.                                           *)
(***************************************************************************)
LimbBits == 7 + 7
Base == 2^LimbBits

RECURSIVE BN(_)
BN(n) == IF n = 0 THEN <<>> ELSE <<n % Base>> \o BN(n \div Base)

RECURSIVE BNToInt(_)
BNToInt(a) == IF a = <<>> THEN 0 ELSE Head(a) + Base * BNToInt(Tail(a))

RECURSIVE BNTrim(_)
BNTrim(a) ==
    IF a = <<>> THEN <<>>
    ELSE IF a[Len(a)] = 0 THEN BNTrim(SubSeq(a, 1, Len(a) - 1))
    ELSE a

RECURSIVE BNAddC(_, _, _)
BNAddC(a, b, c) ==
    IF a = <<>> /\ b = <<>> THEN (IF c = 0 THEN <<>> ELSE <<c>>)
    ELSE LET x == IF a = <<>> THEN 0 ELSE Head(a)
             y == IF b = <<>> THEN 0 ELSE Head(b)
             s == x + y + c
         IN  <<s % Base>> \o BNAddC(IF a = <<>> THEN a ELSE Tail(a),
                                    IF b = <<>> THEN b ELSE Tail(b),
                                    s \div Base)

BNAdd(a, b) == BNAddC(a, b, 0)

\* a - b for a >= b
RECURSIVE BNSubC(_, _, _)
BNSubC(a, b, c) ==
    IF a = <<>> THEN <<>>
    ELSE LET y == IF b = <<>> THEN 0 ELSE Head(b)
             d == Head(a) - y - c
         IN  <<d % Base>> \o BNSubC(Tail(a),
                                    IF b = <<>> THEN b ELSE Tail(b),
                                    IF d < 0 THEN 1 ELSE 0)

BNSub(a, b) == BNTrim(BNSubC(a, b, 0))

\* -1, 0, 1 as a < b, a = b, a > b (both trimmed)
RECURSIVE BNCmpFrom(_, _, _)
BNCmpFrom(a, b, i) ==
    IF i = 0 THEN 0
    ELSE IF a[i] < b[i] THEN -1
    ELSE IF a[i] > b[i] THEN 1
    ELSE BNCmpFrom(a, b, i - 1)

BNCmp(a, b) ==
    IF Len(a) < Len(b) THEN -1
    ELSE IF Len(a) > Len(b) THEN 1
    ELSE BNCmpFrom(a, b, Len(a))

\* a * c for 0 <= c <= Base
RECURSIVE BNMulSmallC(_, _, _)
BNMulSmallC(a, c, carry) ==
    IF a = <<>> THEN (IF carry = 0 THEN <<>> ELSE <<carry>>)
    ELSE LET p == Head(a) * c + carry
         IN  <<p % Base>> \o BNMulSmallC(Tail(a), c, p \div Base)

BNMulSmall(a, c) == BNTrim(BNMulSmallC(a, c, 0))

RECURSIVE BNMul(_, _)
BNMul(a, b) ==
    IF a = <<>> \/ b = <<>> THEN <<>>
    ELSE LET rest == BNMul(a, Tail(b))
         IN  BNAdd(BNMulSmall(a, Head(b)),
                   IF rest = <<>> THEN <<>> ELSE <<0>> \o rest)

RECURSIVE BitLenSmall(_)
BitLenSmall(n) == IF n = 0 THEN 0 ELSE 1 + BitLenSmall(n \div 2)

BNBitLen(a) ==
    IF a = <<>> THEN 0 ELSE LimbBits * (Len(a) - 1) + BitLenSmall(a[Len(a)])

Zeros(k) == [i \in 1..k |-> 0]

\* a * 2^k
BNShl(a, k) ==
    IF a = <<>> THEN <<>>
    ELSE Zeros(k \div LimbBits) \o BNMulSmall(a, 2^(k % LimbBits))

\* floor(a / 2^k)
BNShr(a, k) ==
    LET q == k \div LimbBits
        r == k % LimbBits
        n == Len(a) - q
    IN  IF n <= 0 THEN <<>>
        ELSE BNTrim([i \in 1..n |->
                (a[q + i] \div 2^r)
                + (IF q + i < Len(a)
                   THEN (a[q + i + 1] % 2^r) * 2^(LimbBits - r)
                   ELSE 0)])

\* bit k of a (bit 0 is the least significant)
BNBit(a, k) ==
    LET q == k \div LimbBits
    IN  IF q + 1 > Len(a) THEN 0 ELSE (a[q + 1] \div 2^(k % LimbBits)) % 2

\* the k low bits of a are all zero
BNLowZero(a, k) ==
    LET q == k \div LimbBits
    IN  /\ \A i \in 1..q : i > Len(a) \/ a[i] = 0
        /\ (q + 1 > Len(a) \/ a[q + 1] % 2^(k % LimbBits) = 0)

BNOdd(a) == a # <<>> /\ a[1] % 2 = 1

(***************************************************************************)
(* f64 values (non-negative: samples are unsigned and the weights are      *)
(* positive): m * 2^e with m odd, or zero, infinity, NaN.  Every operation *)
(* rounds its exact result to nearest, ties to even, as IEEE 754 does.     *)
(* Exponent range (subnormals, overflow of f64) is not reached by the      *)
(* bounded sample values and is not modelled.                              *)
(***************************************************************************)
F64Mant == 53
F32Mant == 24
F16Mant == 11

Fin(m, e) == [k |-> "fin", m |-> m, e |-> e]
FZero == Fin(<<>>, 0)
FInf == [k |-> "inf", m |-> <<>>, e |-> 0]
FNaN == [k |-> "nan", m |-> <<>>, e |-> 0]

RECURSIVE TrailingZeros(_)
TrailingZeros(n) == IF n % 2 = 1 THEN 0 ELSE 1 + TrailingZeros(n \div 2)

RECURSIVE BNTrailingZeros(_)
BNTrailingZeros(a) ==
    IF Head(a) = 0 THEN LimbBits + BNTrailingZeros(Tail(a))
    ELSE TrailingZeros(Head(a))

\* the canonical form of M * 2^E
FNorm(M, E) ==
    IF M = <<>> THEN FZero
    ELSE LET tz == BNTrailingZeros(M) IN Fin(BNShr(M, tz), E + tz)

\* M * 2^E (plus, when sticky, a positive fraction below the last bit of M)
\* rounded to p significant bits, to nearest, ties to even
FRound(p, M, E, sticky) ==
    LET L == BNBitLen(M)
    IN  IF L <= p THEN FNorm(M, E)
        ELSE LET k == L - p
                 q == BNShr(M, k)
                 st == sticky \/ ~BNLowZero(M, k - 1)
                 up == BNBit(M, k - 1) = 1 /\ (st \/ BNOdd(q))
             IN  FNorm(IF up THEN BNAdd(q, <<1>>) ELSE q, E + k)

\* `n as f64` for an integer n that f64 holds exactly (n < 2^53)
IntToF64(n) == FNorm(BN(n), 0)

\* a * b
FMul(a, b) ==
    IF a.k = "nan" \/ b.k = "nan" THEN FNaN
    ELSE IF a.k = "inf" \/ b.k = "inf"
         THEN (IF a = FZero \/ b = FZero THEN FNaN ELSE FInf)
    ELSE FRound(F64Mant, BNMul(a.m, b.m), a.e + b.e, FALSE)

\* a + b
FAdd(a, b) ==
    IF a.k = "nan" \/ b.k = "nan" THEN FNaN
    ELSE IF a.k = "inf" \/ b.k = "inf" THEN FInf
    ELSE IF a = FZero THEN b
    ELSE IF b = FZero THEN a
    ELSE LET e == IF a.e < b.e THEN a.e ELSE b.e
         IN  FRound(F64Mant,
                    BNAdd(BNShl(a.m, a.e - e), BNShl(b.m, b.e - e)), e, FALSE)

\* binary long division of A by B over the bits hi..lo of A, entered with
\* remainder R < B: <<the quotient bits of that range, the remainder left>>
RECURSIVE BNDivRange(_, _, _, _, _)
BNDivRange(A, B, hi, lo, R) ==
    IF hi = lo
    THEN LET R2 == BNAdd(BNMulSmall(R, 2),
                         IF BNBit(A, hi) = 1 THEN <<1>> ELSE <<>>)
         IN  IF BNCmp(R2, B) >= 0 THEN <<(<<1>>), BNSub(R2, B)>>
             ELSE <<(<<>>), R2>>
    ELSE LET mid == (hi + lo + 1) \div 2
             upper == BNDivRange(A, B, hi, mid, R)
             lower == BNDivRange(A, B, mid - 1, lo, upper[2])
         IN  <<BNAdd(BNShl(upper[1], mid - lo), lower[1]), lower[2]>>

\* <<floor(A / B), A mod B>> for A > 0
BNDivMod(A, B) == BNDivRange(A, B, BNBitLen(A) - 1, 0, <<>>)

\* a / b
FDiv(a, b) ==
    IF a.k = "nan" \/ b.k = "nan" THEN FNaN
    ELSE IF a.k = "inf" THEN (IF b.k = "inf" THEN FNaN ELSE FInf)
    ELSE IF b.k = "inf" THEN FZero
    ELSE IF b = FZero THEN (IF a = FZero THEN FNaN ELSE FInf)
    ELSE IF a = FZero THEN FZero
    ELSE LET s == F64Mant + 2 + BNBitLen(b.m)
             qr == BNDivMod(BNShl(a.m, s), b.m)
         IN  FRound(F64Mant, qr[1], a.e - b.e - s, qr[2] # <<>>)

\* a < b for finite a, b
FLess(a, b) ==
    IF b = FZero THEN FALSE
    ELSE IF a = FZero THEN TRUE
    ELSE LET e == IF a.e < b.e THEN a.e ELSE b.e
         IN  BNCmp(BNShl(a.m, a.e - e), BNShl(b.m, b.e - e)) < 0

\* the integer part of a finite x, as a natural number of arbitrary size
FTrunc(x) == IF x.e >= 0 THEN BNShl(x.m, x.e) ELSE BNShr(x.m, 0 - x.e)


(***************************************************************************)
(* Sample conversions (common.rs) and the storage types get_frame picks.   *)
(***************************************************************************)
\* Option<T>: None is the empty sequence, Some(x) is <<x>>
None == <<>>
Some(x) == <<x>>

\* x reduced to an unsigned integer of `bits` bits.  The model's sums stay
\* far below 2^31, so the 32- and 64-bit types never wrap here.
Wrap(x, bits) == IF bits >= 31 THEN x ELSE x % 2^bits

IntMax(bits) == 2^bits - 1

\* `n as $int` for an f64 n: truncation toward zero, saturating at the
\* bounds of the type, NaN to 0
F64ToInt(x, bits) ==
    IF x.k = "nan" THEN 0
    ELSE IF x.k = "inf" THEN IntMax(bits)
    ELSE IF x = FZero THEN 0
    ELSE IF BNBitLen(x.m) + x.e > bits THEN IntMax(bits)
    ELSE BNToInt(FTrunc(x))

\* f64 narrowed to a float type of p significand bits whose finite values
\* lie below 2^emax
F64ToFloat(x, p, emax) ==
    IF x.k # "fin" \/ x = FZero THEN x
    ELSE LET r == FRound(p, x.m, x.e, FALSE)
         IN  IF BNBitLen(r.m) + r.e > emax THEN FInf ELSE r

\* int_to_f64!: the operator and the literal of each uD_uW_to_f64
ShiftOf(D, W) ==
    CASE D = 8 /\ W = 8 -> <<"<<", 0>>
      [] D = 8 /\ W = 16 -> <<"<<", 8>>
      [] D = 8 /\ W = 32 -> <<"<<", 24>>
      [] D = 10 /\ W = 8 -> <<">>", 2>>
      [] D = 10 /\ W = 16 -> <<"<<", 4>>
      [] D = 10 /\ W = 32 -> <<"<<", 22>>
      [] D = 12 /\ W = 8 -> <<">>", 4>>
      [] D = 12 /\ W = 16 -> <<"<<", 2>>
      [] D = 12 /\ W = 32 -> <<"<<", 20>>
      [] D = 16 /\ W = 8 -> <<">>", 8>>
      [] D = 16 /\ W = 16 -> <<"<<", 0>>
      [] D = 16 /\ W = 32 -> <<"<<", 16>>
      [] D = 32 /\ W = 8 -> <<">>", 24>>
      [] D = 32 /\ W = 16 -> <<">>", 16>>
      [] D = 32 /\ W = 32 -> <<"<<", 0>>

\* uD_uW_to_f64(n): `((n as u64) $op $n) as f64`; the u64 holds every
\* shifted value and f64 holds it exactly
int_to_f64(D, W, n) ==
    LET s == ShiftOf(D, W)
    IN  IF s[1] = "<<" THEN FNorm(BN(n), s[2])
        ELSE IntToF64(n \div 2^s[2])

\* the $int of the functions of depth D: u8, u16, u16, u16, u32
StorageBits(D) == IF D = 8 THEN 8 ELSE IF D <= 16 THEN 16 ELSE 32

\* f64_to_u8 / f64_to_u16 / f64_to_u32
f64_to_int(bits, x) == F64ToInt(x, bits)

\* the storage type of a format: <<sample type, bits of the storage type>>,
\* or None when get_frame has no arm for the format
StorageType(fmt) ==
    IF fmt[1] = "Integer" /\ fmt[2] = 8 THEN <<"Integer", 8>>
    ELSE IF fmt[1] = "Integer" /\ fmt[2] \in 9..16 THEN <<"Integer", 16>>
    ELSE IF fmt[1] = "Integer" /\ fmt[2] \in 17..32 THEN <<"Integer", 32>>
    ELSE IF fmt[1] = "Float" /\ fmt[2] = 16 THEN <<"Float", 16>>
    ELSE IF fmt[1] = "Float" /\ fmt[2] = 32 THEN <<"Float", 32>>
    ELSE None

\* the accumulator type of the integer functions: u16, u32, u64
InternalBits(bits) == 2 * bits

\* T::to_f64 of a raw sample (float samples of the model hold whole numbers)
ToF64(T, v) == IntToF64(v)

\* T::from_f64
FromF64(T, x) ==
    IF T[1] = "Integer" THEN F64ToInt(x, T[2])
    ELSE IF T[2] = 16 THEN F64ToFloat(x, F16Mant, 16)
    ELSE F64ToFloat(x, F32Mant, 128)

(***************************************************************************)
(* The host's clips.  A node has its video info and, for the frame number  *)
(* requested, a frame: samples a and b laid out as a checkerboard over     *)
(* every plane, and the _PictType property.                                *)
(***************************************************************************)
\* `constant`: format, framerate and resolution are all Property::Constant
Node(fmt, geom, a, b, pict) ==
    [constant |-> TRUE, fmt |-> fmt, fps |-> 24, geom |-> geom,
     num_frames |-> 1, a |-> a, b |-> b, pict |-> pict]

PlaneCount(geom) == geom[1]
\* (a row loop that stops one row early)
HeightLessOne(geom, plane) == geom[2] - 1
Height(geom, plane) == geom[2]
Width(geom, plane) == geom[3]

Coords(geom) ==
    {<<p, r, c>> : p \in 0..(PlaneCount(geom) - 1),
                   r \in 0..(geom[2] - 1), c \in 0..(geom[3] - 1)}

Sample(f, plane, row, col) ==
    IF (plane + row + col) % 2 = 0 THEN f.a ELSE f.b

\* f.plane_row::<T>(plane, row)
PlaneRow(f, plane, row) ==
    [c \in 1..Width(f.geom, plane) |-> Sample(f, plane, row, c - 1)]

\* the source samples of one coordinate, in clip order
Column(frames, plane, row, col) ==
    [k \in 1..Len(frames) |-> Sample(frames[k], plane, row, col)]

(***************************************************************************)
(* lib.rs: argument validation and filter construction.                    *)
(***************************************************************************)
ErrNoClips == "There should be at least one clip as input"
ErrVariable == "Variable properties in input clips are not supported"
ErrMismatch ==
    "Input clips must have the same format, frame rate, resolution, and frame count"
ErrDepth == "Input depth can only be between 8 and 32"
ErrDiscard ==
    "discard cannot be negative, or larger than half the length of input clip list!"
ErrPreset == "Unknown preset! (Only 0..3 supported, see docs for more information)"
ErrBoth == "preset and discard cannot be used simultaneously!"
ErrSource == "Could not retrieve source frame"
ErrFormat == "input depth not supported for sample type"
ErrWeightDiscard ==
    "Tried to use weighting and discard. This shouldn't be possible."
Ok == "Ok"

check_clips(cl) ==
    IF ~(Len(cl) > 0) THEN ErrNoClips
    ELSE IF ~(\A k \in 1..Len(cl) : cl[k].constant) THEN ErrVariable
    ELSE IF ~(\A k \in 2..Len(cl) :
                /\ cl[1].fmt = cl[k].fmt /\ cl[1].fps = cl[k].fps
                /\ cl[1].geom = cl[k].geom
                /\ cl[1].num_frames = cl[k].num_frames)
         THEN ErrMismatch
    ELSE Ok

\* the decimal literals of the presets, as the nearest f64
Lit(hundredths) == FDiv(IntToF64(hundredths), IntToF64(100))

PresetWeights(p) ==
    IF p = 1 THEN <<Lit(182), Lit(130), Lit(100)>>
    ELSE IF p = 2 THEN <<Lit(121), Lit(110), Lit(100)>>
    ELSE <<Lit(110), Lit(100), Lit(100)>>

NoFilter == [kind |-> "none", err |-> Ok, weights |-> None, discard |-> None]
Failed(e) == [kind |-> "error", err |-> e, weights |-> None, discard |-> None]
MeanFilter(weights, discard) ==
    [kind |-> "Mean", err |-> Ok, weights |-> weights, discard |-> discard]
MedianFilter ==
    [kind |-> "Median", err |-> Ok, weights |-> None, discard |-> None]

\* (a bound that lets discard reach half the clips)
DiscardUpToHalf(d, nclips) == d > 0 /\ d <= (nclips \div 2)

\* the bound create_mean puts on discard
DiscardInBounds(d, nclips) == d > 0 /\ d < (nclips \div 2)

\* the `match (discard, preset)` of create_mean, arm by arm
MatchDiscardPreset(discard, preset, nclips) ==
    IF discard # None /\ (preset = Some(0) \/ preset = None)
       /\ DiscardInBounds(discard[1], nclips)
    THEN MeanFilter(None, Some(discard[1]))
    ELSE IF (discard = None \/ discard = Some(0))
            /\ (preset = None \/ preset = Some(0))
    THEN MeanFilter(None, None)
    ELSE IF (discard = None \/ discard = Some(0))
            /\ preset \in {Some(1), Some(2), Some(3)}
    THEN MeanFilter(PresetWeights(preset[1]), None)
    ELSE IF discard # None /\ (preset = Some(0) \/ preset = None)
    THEN Failed(ErrDiscard)
    ELSE IF discard = None
    THEN Failed(ErrPreset)
    ELSE Failed(ErrBoth)

create_mean(cl, preset, discard) ==
    IF check_clips(cl) # Ok THEN Failed(check_clips(cl))
    ELSE IF cl[1].fmt[2] < 8 \/ cl[1].fmt[2] > 32 THEN Failed(ErrDepth)
    ELSE MatchDiscardPreset(discard, preset, Len(cl))

create_median(cl) ==
    IF check_clips(cl) # Ok THEN Failed(check_clips(cl)) ELSE MedianFilter

(***************************************************************************)
(* The partial selector `ultra_pepega` (crate::common, called by the       *)
(* trimmed means).  Selection sweep: k rounds move a maximum of the        *)
(* unplaced prefix to the tail, then k rounds move a minimum of the        *)
(* reduced prefix to the head.  Which of several equal extremes is taken   *)
(* is left open, so the result is a set of sequences.                      *)
(***************************************************************************)
\* the order of the element type: integers, or f64 under partial_cmp
IntOrd == "int"
F64Ord == "f64"
Less(ord, a, b) == IF ord = F64Ord THEN FLess(a, b) ELSE a < b

Swap(s, x, y) == [s EXCEPT ![x] = s[y], ![y] = s[x]]

\* the positions of lo..hi that hold a maximum (a minimum) of s[lo..hi]
MaxAt(s, lo, hi, ord) ==
    {j \in lo..hi : \A t \in lo..hi : ~Less(ord, s[j], s[t])}
MinAt(s, lo, hi, ord) ==
    {j \in lo..hi : \A t \in lo..hi : ~Less(ord, s[t], s[j])}

\* rounds r..k of the sweep for maximums, over every sequence of S
RECURSIVE SweepMax(_, _, _, _)
SweepMax(S, r, k, ord) ==
    IF r > k THEN S
    ELSE SweepMax(UNION {{Swap(s, j, Len(s) - r + 1) :
                            j \in MaxAt(s, 1, Len(s) - r + 1, ord)} : s \in S},
                  r + 1, k, ord)

\* rounds r..k of the sweep for minimums, over the prefix without the k
\* maximums
RECURSIVE SweepMin(_, _, _, _)
SweepMin(S, r, k, ord) ==
    IF r > k THEN S
    ELSE SweepMin(UNION {{Swap(s, j, r) :
                            j \in MinAt(s, r, Len(s) - k, ord)} : s \in S},
                  r + 1, k, ord)

\* (a selector that moves the maximums only)
ultra_pepega_max_only(values, discard, ord) ==
    SweepMax({values}, 1, discard, ord)

ultra_pepega(values, discard, ord) ==
    SweepMin(SweepMax({values}, 1, discard, ord), 1, discard, ord)

(***************************************************************************)
(* The per-pixel computations of mean.rs and median.rs.                    *)
(***************************************************************************)

RECURSIVE SumRange(_, _, _)
SumRange(f, lo, hi) ==
    IF lo > hi THEN 0
    ELSE IF lo = hi THEN f[lo]
    ELSE LET mid == (lo + hi) \div 2
         IN  SumRange(f, lo, mid) + SumRange(f, mid + 1, hi)

\* the exact sum of a sequence of integers
Sum(f) == SumRange(f, 1, Len(f))

\* `.sum::<f64>()`: the terms added in order, each addition rounded
RECURSIVE FSumTo(_, _)
FSumTo(f, n) == IF n = 0 THEN FZero ELSE FAdd(FSumTo(f, n - 1), f[n])

FSum(f) == FSumTo(f, Len(f))

RECURSIVE Insert(_, _, _)
Insert(s, x, ord) ==
    IF s = <<>> THEN <<x>>
    ELSE IF Less(ord, x, Head(s)) THEN <<x>> \o s
    ELSE <<Head(s)>> \o Insert(Tail(s), x, ord)

\* sort_unstable: the values in ascending order
RECURSIVE Sort(_, _)
Sort(s, ord) ==
    IF s = <<>> THEN <<>> ELSE Insert(Sort(Tail(s), ord), Head(s), ord)

\* the samples at column i of the rows held in src_rows
RowsAt(rows, i) == [k \in 1..Len(rows) |-> rows[k][i + 1]]

\* an integer sum in the accumulator type overflows
Overflows(S, ibits) == ibits < 31 /\ S >= 2^ibits

\* (sum / n as $internal) as $depth
IntQuotient(S, n, bits) ==
    Wrap(Wrap(S, InternalBits(bits)) \div Wrap(n, InternalBits(bits)), bits)

\* What one pass of the pixel loop body does: the value written, the
\* scratch buffer left behind, and whether an integer sum overflowed.
Outcome(val, vals, ovf) == [val |-> val, values |-> vals, ovf |-> ovf]

mean_int(T, rows, i, nsrc) ==
    LET S == Sum(RowsAt(rows, i))
    IN  {Outcome(IntQuotient(S, nsrc, T[2]), <<>>,
                 Overflows(S, InternalBits(T[2])))}

\* the window of the scratch buffer the trimmed means sum
DrainWindow(nsrc, discard) == 1..(nsrc - discard * 2)

mean_int_discard(T, rows, i, nsrc, discard, buf) ==
    {LET S == Sum([k \in DrainWindow(nsrc, discard) |-> sel[k]])
     IN  Outcome(IntQuotient(S, nsrc - discard * 2, T[2]), <<>>,
                 Overflows(S, InternalBits(T[2])))
     : sel \in ultra_pepega(buf \o RowsAt(rows, i), discard, IntOrd)}

\* the label byte of a frame: props().get("_PictType").unwrap_or(b"U")[0]
PictByte(f) == IF f.pict = None THEN "U" ELSE f.pict[1][1]

WeightOf(byte, weights) ==
    IF byte \in {"I", "i"} THEN weights[1]
    ELSE IF byte \in {"P", "p"} THEN weights[2]
    ELSE IF byte = "B" THEN weights[3]
    ELSE IntToF64(1)

FrameWeights(frames, weights) ==
    [k \in 1..Len(frames) |-> WeightOf(PictByte(frames[k]), weights)]

Min(a, b) == IF a < b THEN a ELSE b

weighted_mean(T, rows, i, w, recip) ==
    LET p == [k \in 1..Min(Len(rows), Len(w)) |->
                 FMul(ToF64(T, rows[k][i + 1]), w[k])]
    IN  {Outcome(FromF64(T, FMul(FSum(p), recip)), <<>>, FALSE)}

mean_float(T, rows, i, recip) ==
    LET v == [k \in 1..Len(rows) |-> ToF64(T, rows[k][i + 1])]
    IN  {Outcome(FromF64(T, FMul(FSum(v), recip)), <<>>, FALSE)}

mean_float_discard(T, rows, i, nsrc, discard, buf, recip) ==
    {LET v == [k \in DrainWindow(nsrc, discard) |-> sel[k]]
     IN  Outcome(FromF64(T, FMul(FSum(v), recip)), <<>>, FALSE)
     : sel \in ultra_pepega(
           buf \o [k \in 1..Len(rows) |-> ToF64(T, rows[k][i + 1])],
           discard, F64Ord)}

\* what the median functions do to the scratch buffer after a pixel
ScratchAfterMedian(sorted) == sorted

median_int(T, rows, i, buf) ==
    LET values == Sort(buf \o RowsAt(rows, i), IntOrd)
        n == Len(values)
        middle == n \div 2
        data == IF n % 2 = 1 THEN values[((n - 1) \div 2) + 1]
                ELSE Wrap(values[middle] + values[middle + 1],
                          InternalBits(T[2])) \div 2
    IN  {Outcome(Wrap(data, T[2]), ScratchAfterMedian(values), FALSE)}

median_float(T, rows, i, buf) ==
    LET values == Sort(buf \o [k \in 1..Len(rows) |-> ToF64(T, rows[k][i + 1])],
                       F64Ord)
        n == Len(values)
        middle == n \div 2
        data == IF n % 2 = 1 THEN values[((n - 1) \div 2) + 1]
                ELSE FDiv(FAdd(values[middle], values[middle + 1]), IntToF64(2))
    IN  {Outcome(FromF64(T, data), ScratchAfterMedian(values), FALSE)}

(***************************************************************************)
(* What the host passes in: clip lists and the arguments of Mean/Median.   *)
(***************************************************************************)
MaxClips == 4
MaxVal == 2
MaxCells == 4
MaxDiscard == 3

Int8 == <<"Integer", 8>>
OnePixel == <<1, 1, 1>>
NoPict(n) == [k \in 1..n |-> None]

Clips(fmt, geom, a, b, pict) ==
    [k \in 1..Len(a) |-> Node(fmt, geom, a[k], b[k], pict[k])]

\* every column of up to MaxClips 8-bit samples, one pixel
EnumLists ==
    UNION {{Clips(Int8, OnePixel, a, a, NoPict(n)) : a \in [1..n -> 0..MaxVal]}
           : n \in 1..MaxClips}

Geoms ==
    {g \in (1..MaxCells) \X (1..MaxCells) \X (1..MaxCells) :
        g[1] * g[2] * g[3] <= MaxCells}

\* frames of several planes, rows and columns
GeomLists ==
    {Clips(Int8, g, [k \in 1..n |-> (x + k) % (MaxVal + 1)],
           [k \in 1..n |-> y], NoPict(n))
     : g \in Geoms, n \in {1, 2, MaxClips}, x \in 0..MaxVal, y \in {0, MaxVal}}

Formats ==
    {<<"Integer", 4>>, Int8, <<"Integer", 10>>, <<"Integer", 16>>,
     <<"Integer", 32>>, <<"Float", 16>>, <<"Float", 24>>, <<"Float", 32>>,
     <<"Float", 64>>}

FormatLists ==
    {Clips(fmt, <<1, 1, 2>>, [k \in 1..n |-> k], [k \in 1..n |-> n + 1 - k],
           NoPict(n))
     : fmt \in Formats, n \in 2..MaxClips}

PictTypes ==
    {None, Some(<<>>), Some(<<"I">>), Some(<<"i">>), Some(<<"P">>),
     Some(<<"p">>), Some(<<"B">>), Some(<<"b">>), Some(<<"U">>),
     Some(<<"I", "D", "R">>)}

LabelLists ==
    UNION {{Clips(Int8, OnePixel, [k \in 1..n |-> k], [k \in 1..n |-> k], pict)
            : pict \in [1..n -> PictTypes]} : n \in 1..2}

\* the smallest number of clips whose 8-bit samples can exceed a u16 sum
OverflowClips == (2^16 \div IntMax(8)) + 1

BigList ==
    Clips(Int8, OnePixel, [k \in 1..OverflowClips |-> IntMax(8)],
          [k \in 1..OverflowClips |-> IntMax(8)], NoPict(OverflowClips))

IPB == <<Some(<<"I">>), Some(<<"P">>), Some(<<"B">>)>>

SpecialLists ==
    {<<>>,
     Clips(Int8, OnePixel, <<10, 20, 30>>, <<10, 20, 30>>, IPB),
     Clips(Int8, OnePixel, <<1, 2, 3>>, <<1, 2, 3>>, NoPict(3)),
     Clips(Int8, OnePixel, <<1, 2, 3, 4>>, <<1, 2, 3, 4>>, NoPict(4)),
     Clips(Int8, OnePixel, <<5, 100, 10, 20, 90>>, <<5, 100, 10, 20, 90>>,
           NoPict(5)),
     <<[Node(Int8, OnePixel, 1, 1, None) EXCEPT !.constant = FALSE]>>,
     <<Node(Int8, OnePixel, 1, 1, None), Node(Int8, <<1, 1, 2>>, 1, 1, None)>>}

ClipLists == EnumLists \cup GeomLists \cup FormatLists \cup LabelLists
             \cup SpecialLists

Presets == {None} \cup {Some(x) : x \in -1..4}
Discards == {None} \cup {Some(d) : d \in -1..MaxDiscard}

MeanCalls ==
    (ClipLists \X Presets \X Discards) \cup {<<BigList, None, None>>}

NoCall == [fn |-> "none", preset |-> None, discard |-> None]

VARIABLES
    clips,      \* Mean.clips / Median.clips: the nodes passed to the filter
    call,       \* the create call whose result is being taken, and its arguments
    filter,     \* what the create function returned
    pc,         \* where the plugin is: start, idle, then inside get_frame
    asked,      \* per clip, how often get_frame_filter was called on it
    src_frames, \* get_frame: the source frames collected so far
    out_frame,  \* get_frame: None, or the frame allocated, sample by sample
    result,     \* what get_frame returned: None yet, Ok, an error, or a panic
    func,       \* the function the `match` of get_frame picked, and its type
    wts,        \* weighted_mean: the weight of each source frame
    reciprocal, \* the reciprocal computed before the loops
    plane,
    row,
    col,        \* the loop counters
    src_rows,   \* the reused per-row buffer
    values,     \* the reused per-pixel scratch buffer
    tasks,      \* parallel driver: the tasks spawned and not yet run
    writes,     \* parallel driver: per output sample, how often it was written
    sel,        \* a call of the partial selector: its input and its result
    codec       \* a sample taken through the conversion functions

vars == <<clips, call, filter, pc, asked, src_frames, out_frame, result, func,
          wts, reciprocal, plane, row, col, src_rows, values, tasks, writes,
          sel, codec>>

auxVars == <<tasks, writes, sel, codec>>

frameVars == <<src_frames, out_frame, result, func, wts, reciprocal, plane,
               row, col, src_rows, values>>

NoFunc == [name |-> "none", T |-> None]
NoSel == [seq |-> <<>>, k |-> 0, out |-> None]
NoCodec == [D |-> 0, W |-> 0, raw |-> 0, canon |-> None, back |-> None]
Panic == "panic"

Init ==
    /\ clips = <<>>
    /\ call = NoCall
    /\ filter = NoFilter
    /\ pc = "start"
    /\ asked = <<>>
    /\ src_frames = <<>>
    /\ out_frame = None
    /\ result = None
    /\ func = NoFunc
    /\ wts = <<>>
    /\ reciprocal = FZero
    /\ plane = 0
    /\ row = 0
    /\ col = 0
    /\ src_rows = <<>>
    /\ values = <<>>
    /\ tasks = {}
    /\ writes = <<>>
    /\ sel = NoSel
    /\ codec = NoCodec

\* lib.rs: the host calls Mean(clips, preset, discard)
CallCreateMean ==
    /\ pc = "start"
    /\ \E c \in MeanCalls :
        /\ clips' = c[1]
        /\ call' = [fn |-> "Mean", preset |-> c[2], discard |-> c[3]]
        /\ filter' = create_mean(c[1], c[2], c[3])
        /\ asked' = [k \in 1..Len(c[1]) |-> 0]
    /\ pc' = IF filter'.kind = "error" THEN "done" ELSE "idle"
    /\ UNCHANGED <<frameVars, auxVars>>

\* lib.rs: the host calls Median(clips)
CallCreateMedian ==
    /\ pc = "start"
    /\ \E cl \in ClipLists :
        /\ clips' = cl
        /\ filter' = create_median(cl)
        /\ asked' = [k \in 1..Len(cl) |-> 0]
    /\ call' = [fn |-> "Median", preset |-> None, discard |-> None]
    /\ pc' = IF filter'.kind = "error" THEN "done" ELSE "idle"
    /\ UNCHANGED <<frameVars, auxVars>>

\* get_frame is entered: format and resolution are read from clips[0]
GetFrame ==
    /\ pc = "idle"
    /\ pc' = "fetch"
    /\ call' = NoCall
    /\ UNCHANGED <<auxVars, clips, filter, asked, frameVars>>

\* (a clip that fails is asked again)
AfterFailureRetry == "fetch"

\* where get_frame goes when a clip returns no frame: `?` returns the error
AfterFailure == "done"

\* one turn of `clips.iter().map(get_frame_filter).collect::<Result<_>>()?`:
\* the next clip is asked; a frame is pushed, or the first failure returns
FetchSource ==
    /\ pc = "fetch"
    /\ LET k == Len(src_frames) + 1
       IN  /\ asked' = [asked EXCEPT ![k] = @ + 1]
           /\ \E got \in BOOLEAN :
                IF got
                THEN /\ src_frames' = Append(src_frames, clips[k])
                     /\ pc' = IF k = Len(clips) THEN "alloc" ELSE "fetch"
                     /\ result' = result
                ELSE /\ src_frames' = src_frames
                     /\ pc' = AfterFailure
                     /\ result' = Some(ErrSource)
    /\ UNCHANGED <<auxVars, clips, call, filter, out_frame, func, wts, reciprocal,
                   plane, row, col, src_rows, values>>

\* the function the `match` of Mean::get_frame / Median::get_frame selects for
\* a filter and a format; name "bail" for the arms that return an error
Dispatch(f, fmt) ==
    LET T == StorageType(fmt)
        int == T # None /\ T[1] = "Integer"
    IN  IF f.kind = "Mean" /\ f.weights # None /\ f.discard # None
        THEN [name |-> "bail", T |-> None, err |-> ErrWeightDiscard]
        ELSE IF T = None THEN [name |-> "bail", T |-> None, err |-> ErrFormat]
        ELSE IF f.kind = "Median"
        THEN [name |-> IF int THEN "median_int" ELSE "median_float",
              T |-> T, err |-> Ok]
        ELSE IF f.weights # None
        THEN [name |-> "weighted_mean", T |-> T, err |-> Ok]
        ELSE IF f.discard # None
        THEN [name |-> IF int THEN "mean_int_discard" ELSE "mean_float_discard",
              T |-> T, err |-> Ok]
        ELSE [name |-> IF int THEN "mean_int" ELSE "mean_float",
              T |-> T, err |-> Ok]

\* the reciprocal each float function computes before its loops
Reciprocal(name, f, frames, w) ==
    IF name = "weighted_mean" THEN FDiv(IntToF64(1), FSum(w))
    ELSE IF name = "mean_float_discard"
    THEN FDiv(IntToF64(1), IntToF64(Len(frames) - f.discard[1] * 2))
    ELSE IF name = "mean_float" THEN FDiv(IntToF64(1), IntToF64(Len(frames)))
    ELSE FZero

\* the frame FrameRefMut::new_uninitialized returns
Uninitialized(geom) == [c \in Coords(geom) |-> None]

\* get_frame after the sources are in: the output frame is allocated, the
\* `match` picks the function or bails, and the function runs up to its loops
AllocDispatch ==
    /\ pc = "alloc"
    /\ out_frame' = Some(Uninitialized(clips[1].geom))
    /\ LET d == Dispatch(filter, clips[1].fmt)
           labelled == d.name = "weighted_mean"
           w == IF labelled THEN FrameWeights(src_frames, filter.weights)
                ELSE <<>>
       IN  IF d.name = "bail"
           THEN /\ result' = Some(d.err)
                /\ pc' = "done"
                /\ UNCHANGED <<func, wts, reciprocal>>
           ELSE IF labelled /\ \E k \in 1..Len(src_frames) :
                                  src_frames[k].pict = Some(<<>>)
           THEN /\ result' = Some(Panic)
                /\ pc' = "done"
                /\ UNCHANGED <<func, wts, reciprocal>>
           ELSE /\ func' = [name |-> d.name, T |-> d.T]
                /\ wts' = w
                /\ reciprocal' = Reciprocal(d.name, filter, src_frames, w)
                /\ result' = result
                /\ pc' = "row"
    /\ plane' = 0
    /\ row' = 0
    /\ col' = 0
    /\ src_rows' = <<>>
    /\ values' = <<>>
    /\ UNCHANGED <<auxVars, clips, call, filter, asked, src_frames>>

\* top of the row loop: src_rows.extend(src_frames.iter().map(plane_row))
RowBegin ==
    /\ pc = "row"
    /\ src_rows' = src_rows \o
                   [k \in 1..Len(src_frames) |->
                       PlaneRow(src_frames[k], plane, row)]
    /\ col' = 0
    /\ pc' = "pixel"
    /\ UNCHANGED <<auxVars, clips, call, filter, asked, src_frames, out_frame, result,
                   func, wts, reciprocal, plane, row, values>>

\* what the body of the pixel loop can do at column i
PixelOutcomes(fn, rows, i, nsrc, f, buf, w, recip) ==
    IF fn.name = "mean_int" THEN mean_int(fn.T, rows, i, nsrc)
    ELSE IF fn.name = "mean_int_discard"
    THEN mean_int_discard(fn.T, rows, i, nsrc, f.discard[1], buf)
    ELSE IF fn.name = "weighted_mean"
    THEN weighted_mean(fn.T, rows, i, w, recip)
    ELSE IF fn.name = "mean_float_discard"
    THEN mean_float_discard(fn.T, rows, i, nsrc, f.discard[1], buf, recip)
    ELSE IF fn.name = "mean_float" THEN mean_float(fn.T, rows, i, recip)
    ELSE IF fn.name = "median_int" THEN median_int(fn.T, rows, i, buf)
    ELSE median_float(fn.T, rows, i, buf)

\* an overflowing integer sum panics in a build with overflow checks and
\* wraps in one without
OverflowPanics(ovf) == IF ovf THEN BOOLEAN ELSE {FALSE}

\* one pass of the pixel loop: the sample at (plane, row, col) is written
Pixel ==
    /\ pc = "pixel"
    /\ \E o \in PixelOutcomes(func, src_rows, col, Len(src_frames), filter,
                              values, wts, reciprocal) :
       \E panics \in OverflowPanics(o.ovf) :
            IF panics
            THEN /\ result' = Some(Panic)
                 /\ pc' = "done"
                 /\ UNCHANGED <<out_frame, values, col>>
            ELSE /\ out_frame' = Some([out_frame[1] EXCEPT
                                          ![<<plane, row, col>>] = Some(o.val)])
                 /\ values' = o.values
                 /\ col' = col + 1
                 /\ pc' = IF col + 1 = Width(clips[1].geom, plane)
                          THEN "rowend" ELSE "pixel"
                 /\ result' = result
    /\ UNCHANGED <<auxVars, clips, call, filter, asked, src_frames, func, wts,
                   reciprocal, plane, row, src_rows>>

\* bottom of the row loop: src_rows.set_len(0), then the next row or plane
RowEnd ==
    /\ pc = "rowend"
    /\ src_rows' = <<>>
    /\ IF row + 1 < Height(clips[1].geom, plane)
       THEN /\ row' = row + 1
            /\ plane' = plane
            /\ pc' = "row"
       ELSE /\ row' = 0
            /\ plane' = plane + 1
            /\ pc' = IF plane + 1 < PlaneCount(clips[1].geom)
                     THEN "row" ELSE "ret"
    /\ UNCHANGED <<auxVars, clips, call, filter, asked, src_frames, out_frame, result,
                   func, wts, reciprocal, col, values>>

\* Ok(out_frame.into())
Return ==
    /\ pc = "ret"
    /\ result' = Some(Ok)
    /\ pc' = "done"
    /\ UNCHANGED <<auxVars, clips, call, filter, asked, src_frames, out_frame, func,
                   wts, reciprocal, plane, row, col, src_rows, values>>

Next ==
    \/ CallCreateMean
    \/ CallCreateMedian
    \/ GetFrame
    \/ FetchSource
    \/ AllocDispatch
    \/ RowBegin
    \/ Pixel
    \/ RowEnd
    \/ Return

Spec == Init /\ [][Next]_vars
(***************************************************************************)
(* Mean::weighted_mean reached with any weight triple (the function is     *)
(* public; create_mean passes only its three presets).                     *)
(***************************************************************************)
MaxWeight == 2

CustomWeights ==
    {<<IntToF64(x), IntToF64(y), IntToF64(z)>> :
        x \in 0..MaxWeight, y \in 0..MaxWeight, z \in 0..MaxWeight}

WeightedLists ==
    LabelLists \cup {Clips(Int8, OnePixel, <<10, 20, 30>>, <<10, 20, 30>>, IPB)}

InitWeighted ==
    /\ clips \in WeightedLists
    /\ call = NoCall
    /\ filter \in {MeanFilter(w, None) : w \in CustomWeights}
    /\ pc = "alloc"
    /\ asked = [k \in 1..Len(clips) |-> 1]
    /\ src_frames = clips
    /\ out_frame = None
    /\ result = None
    /\ func = NoFunc
    /\ wts = <<>>
    /\ reciprocal = FZero
    /\ plane = 0
    /\ row = 0
    /\ col = 0
    /\ src_rows = <<>>
    /\ values = <<>>
    /\ tasks = {}
    /\ writes = <<>>
    /\ sel = NoSel
    /\ codec = NoCodec

NextWeighted ==
    \/ AllocDispatch
    \/ RowBegin
    \/ Pixel
    \/ RowEnd
    \/ Return

SpecWeighted == InitWeighted /\ [][NextWeighted]_vars

(***************************************************************************)
(* The partial selector on its own, over every short sequence.             *)
(***************************************************************************)
MaxSelLen == 6

SelInputs ==
    UNION {{[seq |-> q, k |-> k, out |-> None] :
              q \in [1..n -> 0..MaxVal], k \in {j \in 0..n : j < n \div 2}}
           : n \in 0..MaxSelLen}

InitSel ==
    /\ sel \in SelInputs
    /\ clips = <<>>
    /\ call = NoCall
    /\ filter = NoFilter
    /\ pc = "select"
    /\ asked = <<>>
    /\ src_frames = <<>>
    /\ out_frame = None
    /\ result = None
    /\ func = NoFunc
    /\ wts = <<>>
    /\ reciprocal = FZero
    /\ plane = 0
    /\ row = 0
    /\ col = 0
    /\ src_rows = <<>>
    /\ values = <<>>
    /\ tasks = {}
    /\ writes = <<>>
    /\ codec = NoCodec

\* ultra_pepega(&mut values, discard)
Select ==
    /\ pc = "select"
    /\ \E r \in ultra_pepega(sel.seq, sel.k, IntOrd) :
          sel' = [sel EXCEPT !.out = Some(r)]
    /\ pc' = "done"
    /\ UNCHANGED <<clips, call, filter, asked, frameVars, tasks, writes, codec>>

NextSel == Select

SpecSel == InitSel /\ [][NextSel]_vars

(***************************************************************************)
(* common.rs, loop_frame_func!: the driver the macro generates, in its     *)
(* `parallel` form (rayon tasks per plane, per row, per column) and in its *)
(* sequential form.                                                        *)
(***************************************************************************)
\* the block `$func` the macro is given: it writes the pixel from the rows
LoopFunc(rows, i) == IntQuotient(Sum(RowsAt(rows, i)), Len(rows), 8)

Task(kind, p, r, i, rows) ==
    [kind |-> kind, plane |-> p, row |-> r, i |-> i, rows |-> rows]

\* (0..plane_count).into_par_iter().for_each(|plane| ..)
PlaneTasks(first_frame) ==
    {Task("plane", p, 0, 0, <<>>) : p \in 0..(PlaneCount(first_frame.geom) - 1)}

\* (0..first_frame.height(plane)).into_par_iter().for_each(|row| ..)
RowTasks(first_frame, p) ==
    {Task("row", p, r, 0, <<>>) : r \in 0..(Height(first_frame.geom, p) - 1)}

\* plane_row_mut(plane, row).par_iter_mut().enumerate().for_each(|(i, pixel)| ..)
ColTasks(first_frame, p, r, rows) ==
    {Task("col", p, r, i, rows) : i \in 0..(Width(first_frame.geom, p) - 1)}

\* (every row task handed the first row of its plane)
TargetFirstRow(t) == <<t.plane, 0, t.i>>

\* the sample a column task writes: the one par_iter_mut hands it
Target(t) == <<t.plane, t.row, t.i>>

\* the sequential form: planes, rows and pixels in order
SeqOrder(geom) ==
    [n \in 1..(geom[1] * geom[2] * geom[3]) |->
        <<(n - 1) \div (geom[2] * geom[3]),
          ((n - 1) \div geom[3]) % geom[2],
          (n - 1) % geom[3]>>]

RECURSIVE SeqWrite(_, _, _, _)
SeqWrite(frame, frames, order, n) ==
    IF n > Len(order) THEN frame
    ELSE LET c == order[n]
             rows == [k \in 1..Len(frames) |-> PlaneRow(frames[k], c[1], c[2])]
         IN  SeqWrite([frame EXCEPT ![c] = Some(LoopFunc(rows, c[3]))],
                      frames, order, n + 1)

SequentialLoop(frames) ==
    SeqWrite(Uninitialized(frames[1].geom), frames,
             SeqOrder(frames[1].geom), 1)

ParLists ==
    {Clips(Int8, g, [k \in 1..2 |-> (x + k) % (MaxVal + 1)],
           [k \in 1..2 |-> (x + 2 * k) % (MaxVal + 1)], NoPict(2))
     : g \in Geoms, x \in 0..MaxVal}

InitPar ==
    /\ src_frames \in ParLists
    /\ clips = src_frames
    /\ out_frame = Some(Uninitialized(src_frames[1].geom))
    /\ writes = [c \in Coords(src_frames[1].geom) |-> 0]
    /\ tasks = {}
    /\ pc = "par_call"
    /\ call = NoCall
    /\ filter = NoFilter
    /\ asked = <<>>
    /\ result = None
    /\ func = NoFunc
    /\ wts = <<>>
    /\ reciprocal = FZero
    /\ plane = 0
    /\ row = 0
    /\ col = 0
    /\ src_rows = <<>>
    /\ values = <<>>
    /\ sel = NoSel
    /\ codec = NoCodec

parFixed == <<clips, call, filter, asked, src_frames, func, wts, reciprocal,
              plane, row, col, src_rows, values, sel, codec>>

\* the function is entered: one task per plane
ParFork ==
    /\ pc = "par_call"
    /\ tasks' = PlaneTasks(src_frames[1])
    /\ pc' = "par"
    /\ UNCHANGED <<parFixed, out_frame, writes, result>>

RunPlane ==
    /\ pc = "par"
    /\ \E t \in tasks :
        /\ t.kind = "plane"
        /\ tasks' = (tasks \ {t}) \cup RowTasks(src_frames[1], t.plane)
    /\ UNCHANGED <<parFixed, out_frame, writes, result, pc>>

\* a row task collects the source rows and hands every pixel to a task
RunRow ==
    /\ pc = "par"
    /\ \E t \in tasks :
        /\ t.kind = "row"
        /\ tasks' = (tasks \ {t}) \cup
             ColTasks(src_frames[1], t.plane, t.row,
                      [k \in 1..Len(src_frames) |->
                          PlaneRow(src_frames[k], t.plane, t.row)])
    /\ UNCHANGED <<parFixed, out_frame, writes, result, pc>>

\* a column task runs `$func` on its pixel
RunCol ==
    /\ pc = "par"
    /\ \E t \in tasks :
        /\ t.kind = "col"
        /\ tasks' = tasks \ {t}
        /\ out_frame' = Some([out_frame[1] EXCEPT
                                 ![Target(t)] = Some(LoopFunc(t.rows, t.i))])
        /\ writes' = [writes EXCEPT ![Target(t)] = @ + 1]
    /\ UNCHANGED <<parFixed, result, pc>>

\* every for_each has returned
ParJoin ==
    /\ pc = "par"
    /\ tasks = {}
    /\ pc' = "done"
    /\ result' = Some(Ok)
    /\ UNCHANGED <<parFixed, out_frame, writes, tasks>>

NextPar ==
    \/ ParFork
    \/ RunPlane
    \/ RunRow
    \/ RunCol
    \/ ParJoin

SpecPar == InitPar /\ [][NextPar]_vars

(***************************************************************************)
(* common.rs, the conversion functions on their own: a raw sample of depth *)
(* D is converted by uD_uW_to_f64 and the result converted back by the     *)
(* f64_to_int of the depth's storage type.                                 *)
(***************************************************************************)
MaxRaw == 15

Depths == {8, 10, 12, 16, 32}
Widths == {8, 16, 32}

\* the largest raw value of depth D the model's integers hold
TopRaw(D) == IF D < 31 THEN 2^D - 1 ELSE 2^30 + (2^30 - 1)

\* the lowest and the highest raw values of a depth
RawValues(D) == (0..MaxRaw) \cup {TopRaw(D) - j : j \in 0..MaxRaw}

InitCodec ==
    /\ clips = <<>>
    /\ call = NoCall
    /\ filter = NoFilter
    /\ pc = "to_f64"
    /\ asked = <<>>
    /\ src_frames = <<>>
    /\ out_frame = None
    /\ result = None
    /\ func = NoFunc
    /\ wts = <<>>
    /\ reciprocal = FZero
    /\ plane = 0
    /\ row = 0
    /\ col = 0
    /\ src_rows = <<>>
    /\ values = <<>>
    /\ tasks = {}
    /\ writes = <<>>
    /\ sel = NoSel
    /\ \E d \in Depths, w \in Widths :
          \E x \in RawValues(d) :
             codec = [D |-> d, W |-> w, raw |-> x, canon |-> None, back |-> None]

codecFixed == <<clips, call, filter, asked, frameVars, tasks, writes, sel>>

\* uD_uW_to_f64(raw)
ToCanonical ==
    /\ pc = "to_f64"
    /\ codec' = [codec EXCEPT !.canon = Some(int_to_f64(codec.D, codec.W, codec.raw))]
    /\ pc' = "from_f64"
    /\ UNCHANGED codecFixed

\* f64_to_int of the storage type
FromCanonical ==
    /\ pc = "from_f64"
    /\ codec' = [codec EXCEPT !.back = Some(f64_to_int(StorageBits(codec.D), codec.canon[1]))]
    /\ pc' = "done"
    /\ UNCHANGED codecFixed

NextCodec == ToCanonical \/ FromCanonical

SpecCodec == InitCodec /\ [][NextCodec]_vars

(***************************************************************************)
(* The properties checked.                                                 *)
(***************************************************************************)
\* the output samples written so far, and what they and their sources hold
Written ==
    IF out_frame = None THEN {}
    ELSE {c \in DOMAIN out_frame[1] : out_frame[1][c] # None}
ValueAt(c) == out_frame[1][c][1]
ColumnAt(c) == Column(src_frames, c[1], c[2], c[3])
IntFormat == func.T # None /\ func.T[1] = "Integer"
Ascending(xs) == Sort(xs, IntOrd)

\* x / 2 and x / n, exactly where f64 holds them, else correctly rounded
Half(x) == FNorm(BN(x), -1)
Ratio(x, n) == FDiv(IntToF64(x), IntToF64(n))

MedianOf(xs) ==
    LET s == Ascending(xs)
        n == Len(xs)
    IN  IF n % 2 = 1 THEN s[(n + 1) \div 2]
        ELSE (s[n \div 2] + s[(n \div 2) + 1]) \div 2

MedianOfFloats(xs) ==
    LET s == Ascending(xs)
        n == Len(xs)
    IN  IF n % 2 = 1 THEN IntToF64(s[(n + 1) \div 2])
        ELSE Half(s[n \div 2] + s[(n \div 2) + 1])

\* C1: in Median mode every sample written is the median of exactly the N
\* source samples at its own coordinate: the middle one of their sorted
\* order for odd N, the mean of the two middle ones for even N (truncated
\* for integer samples, exact for float samples).
C1_MedianOfColumn ==
    filter.kind = "Median" =>
        \A c \in Written :
            ValueAt(c) = IF IntFormat THEN MedianOf(ColumnAt(c))
                         ELSE FromF64(func.T, MedianOfFloats(ColumnAt(c)))

\* the sum of what is left of a column without its d largest and d smallest
TrimmedSum(xs, d) ==
    Sum([k \in 1..(Len(xs) - 2 * d) |-> Ascending(xs)[d + k]])

\* C2: in Trimmed(discard) mode every sample written is the mean (truncated
\* for integer samples) of the N - 2*discard values left of its column once
\* the discard largest and the discard smallest are removed.
C2_TrimmedMean ==
    (filter.kind = "Mean" /\ filter.discard # None) =>
        \A c \in Written :
            LET d == filter.discard[1]
                n == Len(src_frames) - 2 * d
            IN  ValueAt(c) =
                    IF IntFormat THEN TrimmedSum(ColumnAt(c), d) \div n
                    ELSE FromF64(func.T, Ratio(TrimmedSum(ColumnAt(c), d), n))

\* the weight triples of the presets, in hundredths, and the weight a label
\* selects from one
Hundredths(weights) ==
    IF weights = PresetWeights(1) THEN <<182, 130, 100>>
    ELSE IF weights = PresetWeights(2) THEN <<121, 110, 100>>
    ELSE <<110, 100, 100>>

LabelWeight(f, w) ==
    IF f.pict = None THEN 100
    ELSE IF f.pict[1][1] \in {"I", "i"} THEN w[1]
    ELSE IF f.pict[1][1] \in {"P", "p"} THEN w[2]
    ELSE IF f.pict[1][1] = "B" THEN w[3]
    ELSE 100

WeightedSum(xs, frames, w) ==
    Sum([k \in 1..Len(xs) |-> xs[k] * LabelWeight(frames[k], w)])
WeightSum(frames, w) ==
    Sum([k \in 1..Len(frames) |-> LabelWeight(frames[k], w)])

\* C3: in Weighted mode every sample written is sum(value_i * weight_i) /
\* sum(weight_i) over the N sources, weight_i chosen by source i's label.
C3_WeightedMean ==
    (func.name = "weighted_mean" /\ call = NoCall) =>
        \A c \in Written :
            LET w == Hundredths(filter.weights)
                num == WeightedSum(ColumnAt(c), src_frames, w)
                den == WeightSum(src_frames, w)
            IN  ValueAt(c) = IF IntFormat THEN num \div den
                             ELSE FromF64(func.T, Ratio(num, den))

\* C4: in Plain mode over integer samples every sample written is
\* floor(S / N), S the exact sum of the N source samples at its coordinate.
C4_PlainMean ==
    func.name = "mean_int" =>
        \A c \in Written : ValueAt(c) = Sum(ColumnAt(c)) \div Len(src_frames)

\* C5: create_mean fails, and no Mean filter exists, for a discard that is
\* negative or at least half the clips and for discard > 0 together with
\* preset > 0; no output is ever allocated for a failed creation; a Mean
\* filter never has both weights and discard, and get_frame never takes
\* its (Some, Some) arm.
C5_ValidationRejects ==
    /\ (call.fn = "Mean" /\ call.discard # None
        /\ (call.discard[1] < 0 \/ 2 * call.discard[1] >= Len(clips)))
          => filter.kind = "error"
    /\ (call.fn = "Mean" /\ call.discard # None /\ call.preset # None
        /\ call.discard[1] > 0 /\ call.preset[1] > 0)
          => filter.kind = "error"
    /\ filter.kind = "error" => (pc = "done" /\ out_frame = None)
    /\ filter.kind = "Mean" => (filter.weights = None \/ filter.discard = None)
    /\ result # Some(ErrWeightDiscard)

\* a request for as many discards as half the clips has been refused
C5_Witness ==
    /\ call.fn = "Mean"
    /\ call.discard = Some(2)
    /\ call.preset = None
    /\ Len(clips) = 4
    /\ filter = Failed(ErrDiscard)

Occurrences(s, v) == Cardinality({j \in 1..Len(s) : s[j] = v})

\* C6: the partial selector leaves a rearrangement of its input whose last
\* k positions hold the k largest values and whose first k positions hold
\* the k smallest, as multisets, for every k below half the length.
C6_SelectorPostcondition ==
    sel.out # None =>
        LET o == sel.out[1]
            n == Len(sel.seq)
            s == Ascending(sel.seq)
        IN  /\ Len(o) = n
            /\ \A v \in 0..MaxVal : Occurrences(o, v) = Occurrences(sel.seq, v)
            /\ Ascending(SubSeq(o, n - sel.k + 1, n)) = SubSeq(s, n - sel.k + 1, n)
            /\ Ascending(SubSeq(o, 1, sel.k)) = SubSeq(s, 1, sel.k)

\* the selector has moved two maximums and two minimums into place
C6_Witness ==
    /\ sel.out # None
    /\ sel.k = 2
    /\ sel.seq = <<2, 0, 1, 2, 0, 1>>
    /\ sel.out[1] # sel.seq

\* C7: under every interleaving of the plane, row and column tasks each
\* output sample is written at most once and, at the end, exactly once; no
\* two tasks hold the same sample; a sample written holds the value the
\* sequential driver writes there, a function of its own column; and the
\* final frame is the sequential driver's frame.
C7_ParallelEqualsSequential ==
    LET seq == SequentialLoop(src_frames)
        cols == {t \in tasks : t.kind = "col"}
    IN  /\ \A c \in DOMAIN writes : writes[c] <= 1
        /\ \A c \in DOMAIN writes :
              IF writes[c] = 0 THEN out_frame[1][c] = None
              ELSE /\ out_frame[1][c] = seq[c]
                   /\ ValueAt(c) = Sum(ColumnAt(c)) \div Len(src_frames)
        /\ \A t \in cols : writes[Target(t)] = 0
        /\ \A t, u \in cols : Target(t) = Target(u) => t = u
        /\ pc = "done" =>
              (out_frame[1] = seq /\ \A c \in DOMAIN writes : writes[c] = 1)

\* the parallel driver has finished a frame of two planes of two rows
C7_Witness ==
    /\ pc = "done"
    /\ result = Some(Ok)
    /\ src_frames[1].geom = <<2, 2, 1>>
    /\ \A c \in DOMAIN writes : writes[c] = 1

\* C8: with weights that sum to 0, weighted_mean writes no sample and does
\* not return normally (the failure is reported, nothing is substituted).
C8_DegenerateReported ==
    (func.name = "weighted_mean" /\ FSum(wts) = FZero) =>
        (Written = {} /\ result # Some(Ok))

\* C9: no clip is asked twice and none after the first that fails; when a
\* clip fails get_frame returns the error with no output frame allocated;
\* an output frame exists, and get_frame succeeds, only with all N source
\* frames obtained.
C9_SourceFailure ==
    /\ \A k \in DOMAIN asked : asked[k] <= 1
    /\ \A k \in DOMAIN asked : k > Len(src_frames) + 1 => asked[k] = 0
    /\ result = Some(ErrSource) =>
          (pc = "done" /\ out_frame = None /\ Len(src_frames) < Len(clips))
    /\ out_frame # None => Len(src_frames) = Len(clips)
    /\ result = Some(Ok) => Len(src_frames) = Len(clips)

\* the second of four clips has failed: the last two were never asked
C9_Witness ==
    /\ result = Some(ErrSource)
    /\ Len(clips) = 4
    /\ Len(src_frames) = 1
    /\ asked = <<1, 1, 0, 0>>

\* C10: when get_frame succeeds every sample of every plane, row and column
\* of the output frame has been written; when it fails for an unsupported
\* format none has.
C10_FullyWritten ==
    /\ result = Some(Ok) =>
          /\ out_frame # None
          /\ DOMAIN out_frame[1] = Coords(clips[1].geom)
          /\ Written = Coords(clips[1].geom)
    /\ result = Some(ErrFormat) => Written = {}

\* get_frame has returned a frame of two planes of two rows
C10_Witness ==
    /\ result = Some(Ok)
    /\ clips[1].geom = <<2, 2, 1>>
    /\ Written = Coords(clips[1].geom)
    /\ filter.kind = "Median"

\* C11: for each integer kind U8, U10, U12, U16 and every raw value x of its
\* depth, x converted to the canonical domain by a uD_uW_to_f64 of the kind
\* and back by the f64_to_int of its storage type is x again, for at least
\* one of the domain widths W the kind has a function for.
C11_RoundTrip ==
    (codec.back # None /\ codec.D \in {8, 10, 12, 16}) =>
        \E w \in Widths :
            f64_to_int(StorageBits(codec.D), int_to_f64(codec.D, w, codec.raw))
                = codec.raw

\* raw << (W - D) for W >= D, raw >> (D - W) for W < D, as an f64
ShiftByDepths(D, W, raw) ==
    IF W >= D THEN FNorm(BN(raw), W - D)
    ELSE IntToF64(raw \div 2^(D - W))

\* C15: every uD_uW_to_f64 returns its raw argument shifted by the
\* difference of D and W: left by W - D when W >= D, right by D - W when
\* W < D.
C15_ExactShift ==
    codec.canon # None =>
        codec.canon[1] = ShiftByDepths(codec.D, codec.W, codec.raw)

\* the sample of the only source at a coordinate, as the output's type holds it
OwnSample(c) ==
    IF IntFormat THEN ColumnAt(c)[1]
    ELSE FromF64(func.T, IntToF64(ColumnAt(c)[1]))

\* C12: with exactly one source, every sample written by Plain, Weighted,
\* Median and Trimmed with discard 0 is the source's own sample at that
\* coordinate, and create_mean rejects every discard > 0.
C12_SingleSource ==
    /\ (Len(clips) = 1 /\ Len(src_frames) = 1) =>
          \A c \in Written : ValueAt(c) = OwnSample(c)
    /\ (Len(clips) = 1 /\ call.fn = "Mean" /\ call.discard # None
        /\ call.discard[1] > 0) => filter.kind = "error"

\* C13: create_mean, given clips it accepts, no preset or preset 0 and a
\* discard d with d >= 1 and 2*d < number of clips, returns a Mean with
\* discard = d and no weights.
C13_AcceptsInBounds ==
    (/\ call.fn = "Mean"
     /\ check_clips(clips) = Ok
     /\ clips[1].fmt[2] \in 8..32
     /\ call.preset \in {None, Some(0)}
     /\ call.discard # None
     /\ call.discard[1] >= 1
     /\ 2 * call.discard[1] < Len(clips))
        => filter = MeanFilter(None, Some(call.discard[1]))

\* the rows of the source frames at (plane, row)
CurrentRows ==
    [k \in 1..Len(src_frames) |-> PlaneRow(src_frames[k], plane, row)]

\* C14: whenever the body of a pixel loop is entered, the per-pixel scratch
\* buffer is empty (so that, once filled, it holds exactly the N source
\* values of the pixel) and the per-row buffer holds exactly the N source
\* rows of the current plane and row.
C14_BuffersFresh ==
    pc = "pixel" => (values = <<>> /\ src_rows = CurrentRows)

\* the weight the label of frame f selects from the triple w
ClaimedWeight(f, w) ==
    IF f.pict = None \/ f.pict[1] = <<>> THEN IntToF64(1)
    ELSE IF f.pict[1][1] \in {"I", "i"} THEN w[1]
    ELSE IF f.pict[1][1] \in {"P", "p"} THEN w[2]
    ELSE IF f.pict[1][1] = "B" THEN w[3]
    ELSE IntToF64(1)

\* C16: once weighted_mean has read the labels it has not failed, and the
\* weight of source i is weights[0] for 'I'/'i', weights[1] for 'P'/'p',
\* weights[2] for 'B' and 1.0 for every other or absent _PictType.
C16_LabelWeights ==
    pc # "alloc" =>
        /\ result # Some(Panic)
        /\ wts = [k \in 1..Len(src_frames) |->
                     ClaimedWeight(src_frames[k], filter.weights)]

\* the number the integer means divide by, in the accumulator's type
Divisor ==
    Wrap(IF filter.discard = None THEN Len(src_frames)
         ELSE Len(src_frames) - 2 * filter.discard[1],
         InternalBits(func.T[2]))

\* C17: in mean_u8, mean_u8_discard, mean_u16 and mean_u16_discard no pixel's
\* sum exceeds the accumulator's range and the divisor is never 0.
C17_NoOverflow ==
    (/\ pc = "pixel"
     /\ func.name \in {"mean_int", "mean_int_discard"}
     /\ func.T[2] \in {8, 16})
        => /\ \A o \in PixelOutcomes(func, src_rows, col, Len(src_frames),
                                     filter, values, wts, reciprocal) : ~o.ovf
           /\ Divisor # 0
====
